---- MODULE Spec2Model ----
(***************************************************************************)
(* Model of generic-device-plugin (src/src/lib.rs, src/src/service.rs).    *)
(*                                                                         *)
(* Three specifications share this module, one per part of the program:    *)
(*   SpecAlloc  the Allocate / GetPreferredAllocation handlers,            *)
(*   SpecWatch  the ListAndWatch polling tasks and their channels,         *)
(*   SpecRun    GenericDevicePluginServer::run with its serving task, its  *)
(*              filesystem watcher and the registration call.              *)
(* Each specification moves its own variables and leaves the others at     *)
(* their initial values.                                                   *)
(***************************************************************************)
EXTENDS Integers, Sequences, FiniteSets, TLC

VARIABLES
    \* ---- Allocate / GetPreferredAllocation (service.rs 98-134)
    rpc,                  \* the handler running: "none", "Allocate", "GetPreferredAllocation"
    container_requests,   \* request.container_requests
    next_req,             \* position of the for loop in container_requests
    container_responses,  \* the Vec the handler pushes to
    plugin_calls,         \* log of the calls made to the plugin, with their results
    rpc_result,           \* what the handler returned
    \* ---- ListAndWatch (service.rs 54-91), one entry per stream
    lw,                   \* where the polling task of the stream is
    prev_devices,         \* the task's prev_devices
    devices_resp,         \* the task's devices_resp, the latest get_devices result
    chan,                 \* the items in the mpsc channel, oldest first
    rx_open,              \* whether the receiving half (the ReceiverStream) is alive
    polled,               \* log of the get_devices results of the task
    emitted,              \* log of the values the task handed to tx.send
    delivered,            \* log of the items the peer took from the stream
    \* ---- GenericDevicePluginServer::run (lib.rs 58-121) and its surroundings
    cfg,                  \* dir_path, socket_name and the plugin's associated constants
    mgr,                  \* where run is
    run_error,            \* why run returned, "none" while it runs
    generation,           \* number of sockets run has bound so far
    sock_file,            \* the file at socket_path: none, run's own socket, another process's
    other_listening,      \* whether the other process listens on its socket
    path_ok,              \* whether socket_path can be reached at all
    uds,                  \* the listener of this generation: "none", "listening", "closed"
    watched,              \* the file the watcher of this generation is subscribed to
    events,               \* change notifications the watcher's callback has not handled yet
    changed,              \* the watch channel holds a value rx has not seen
    tx_alive,             \* the watcher, and with it tx, has not been dropped
    srv,                  \* the serving task: "none", "serving", "draining", "ended"
    tx_sends,             \* tx.send calls of this generation
    shutdowns,            \* completions of the shutdown future of this generation
    probe_result,         \* what connect answered in this iteration
    probe_removed,        \* whether line 65 removed a file in this iteration
    removed_since_bind,   \* whether another process removed socket_path's file since the bind
    reg_attempts,         \* log: the state of the serving side each time register was called
    registrations,        \* log: the Register requests sent, with the socket dialled
    options_resp,         \* the latest GetDevicePluginOptions response
    externals,            \* steps other processes have taken on socket_path
    \* ---- two GenericDevicePluginServer::run on one socket_path (lib.rs 58-99)
    inst,                 \* per instance: where run is, its serving task, its listener,
                          \* the file its watcher is subscribed to, its notifications
    path_file,            \* the file at the socket_path the instances share
    deleted,              \* log: the files the instances removed and whether one was live
    removals              \* removals of the shared file by other processes

allocVars == <<rpc, container_requests, next_req, container_responses,
               plugin_calls, rpc_result>>

watchVars == <<lw, prev_devices, devices_resp, chan, rx_open, polled, emitted, delivered>>

runVars == <<cfg, mgr, run_error, generation, sock_file, other_listening, path_ok, uds,
             watched, events, changed, tx_alive, srv, tx_sends, shutdowns, probe_result,
             probe_removed, removed_since_bind, reg_attempts, registrations, options_resp,
             externals>>

sharedVars == <<inst, path_file, deleted, removals>>

vars == <<allocVars, watchVars, runVars, sharedVars>>

\* What the actions of one part leave alone.
notAllocVars == <<watchVars, runVars, sharedVars>>
notWatchVars == <<allocVars, runVars, sharedVars>>
notRunVars == <<allocVars, watchVars, sharedVars>>
notSharedVars == <<allocVars, watchVars, runVars>>

\* ------------------------------------------------------------------ bounds

\* Longest list of container requests in one Allocate / GetPreferredAllocation.
MaxContainers == 2

\* get_devices calls made by all the polling tasks together.
MaxPolls == 3

\* Sockets one run binds (iterations of its loop that reach the bind).
MaxGenerations == 2

\* Steps other processes take on socket_path (remove, touch, bind, exit).
MaxExternal == 2

\* ------------------------------------------------------------------ values

\* tonic::Status codes the plugin may fail with.
StatusCodes == {"unavailable", "not_found"}

NoStatus == "none"

\* Result<T, Status>
Ok(v) == [tag |-> "Ok", val |-> v, status |-> NoStatus]
Err(none, s) == [tag |-> "Err", val |-> none, status |-> s]

IsOk(r) == r.tag = "Ok"
IsErr(r) == r.tag = "Err"

SeqsUpTo(S, n) == UNION {[1..k -> S] : k \in 0..n}

\* -------------------------------------------------------------- ListAndWatch

\* The ListAndWatch calls that may be open at the same time.
Streams == {"s1", "s2"}

\* mpsc::channel(128)
ChannelCapacity == 128

Healthy == "Healthy"
Unhealthy == "Unhealthy"

\* The device lists the plugin may report (Vec<Device>).
DeviceLists == {<<>>,
                <<[id |-> "mock0", health |-> Healthy]>>,
                <<[id |-> "mock0", health |-> Unhealthy]>>}

NoDevices == <<>>
NoListAndWatchResponse == [devices |-> <<>>]

\* DP::get_devices(): whatever the plugin implementation answers.
get_devices ==
    {Ok(l) : l \in DeviceLists} \cup {Err(NoDevices, s) : s \in StatusCodes}

\* Result::ok(): Some(v) is <<v>>, None is <<>>.
ok(r) == IF IsOk(r) THEN <<r.val>> ELSE <<>>

\* Mutant of InitialPrevDevices: the loop starts from an empty device list.
InitialPrevDevicesEmptyList == Ok(<<>>)

\* line 60: Err(Status::unknown(""))
InitialPrevDevices == Err(NoDevices, "unknown")

\* Mutant of ErrorOrChanged: the is_err() test is left out.
ChangedOnly(resp, prev) == ok(resp) # ok(prev)

\* line 69: devices_resp.is_err() || devices_resp.ok() != prev_devices.ok()
ErrorOrChanged(resp, prev) == IsErr(resp) \/ ok(resp) # ok(prev)

\* line 73: devices_resp.map(|x| ListAndWatchResponse { devices: x })
ListAndWatchItem(resp) ==
    IF IsOk(resp) THEN Ok([devices |-> resp.val])
    ELSE Err(NoListAndWatchResponse, resp.status)

TotalPolls == Len(polled["s1"]) + Len(polled["s2"])

\* No ListAndWatch call has been made.
WatchIdle ==
    /\ lw = [s \in Streams |-> "none"]
    /\ prev_devices = [s \in Streams |-> InitialPrevDevices]
    /\ devices_resp = [s \in Streams |-> InitialPrevDevices]
    /\ chan = [s \in Streams |-> <<>>]
    /\ rx_open = [s \in Streams |-> FALSE]
    /\ polled = [s \in Streams |-> <<>>]
    /\ emitted = [s \in Streams |-> <<>>]
    /\ delivered = [s \in Streams |-> <<>>]

\* list_and_watch, line 58-60 and 90: the channel is made, the task spawned and
\* the receiving half returned to the peer.
ListAndWatch(s) ==
    /\ lw[s] = "none"
    /\ lw' = [lw EXCEPT ![s] = "loop"]
    /\ prev_devices' = [prev_devices EXCEPT ![s] = InitialPrevDevices]
    /\ chan' = [chan EXCEPT ![s] = <<>>]
    /\ rx_open' = [rx_open EXCEPT ![s] = TRUE]
    /\ UNCHANGED <<devices_resp, polled, emitted, delivered>>
    /\ UNCHANGED notWatchVars

\* Mutant of LoopTop: tx.is_closed() is not looked at.
LoopTopNoCheck(s) ==
    /\ lw[s] = "loop"
    /\ lw' = [lw EXCEPT ![s] = "get_devices"]
    /\ UNCHANGED <<prev_devices, devices_resp, chan, rx_open, polled, emitted, delivered>>
    /\ UNCHANGED notWatchVars

\* line 62-64: the top of the loop.
LoopTop(s) ==
    /\ lw[s] = "loop"
    /\ lw' = [lw EXCEPT ![s] = IF rx_open[s] THEN "get_devices" ELSE "done"]
    /\ UNCHANGED <<prev_devices, devices_resp, chan, rx_open, polled, emitted, delivered>>
    /\ UNCHANGED notWatchVars

\* Mutant of GetDevices: prev_devices is not updated when a result goes out.
GetDevicesForgetful(s) ==
    /\ lw[s] = "get_devices"
    /\ TotalPolls < MaxPolls
    /\ \E resp \in get_devices :
         /\ devices_resp' = [devices_resp EXCEPT ![s] = resp]
         /\ polled' = [polled EXCEPT ![s] = Append(@, resp)]
         /\ IF ErrorOrChanged(resp, prev_devices[s])
            THEN /\ emitted' = [emitted EXCEPT ![s] = Append(@, ListAndWatchItem(resp))]
                 /\ lw' = [lw EXCEPT ![s] = "send"]
            ELSE /\ lw' = [lw EXCEPT ![s] = "sleep"]
                 /\ UNCHANGED emitted
    /\ UNCHANGED <<prev_devices, chan, rx_open, delivered>>
    /\ UNCHANGED notWatchVars

\* Mutant of GetDevices: a failed poll ends the loop.
GetDevicesBreakOnError(s) ==
    /\ lw[s] = "get_devices"
    /\ TotalPolls < MaxPolls
    /\ \E resp \in get_devices :
         /\ devices_resp' = [devices_resp EXCEPT ![s] = resp]
         /\ polled' = [polled EXCEPT ![s] = Append(@, resp)]
         /\ IF ErrorOrChanged(resp, prev_devices[s])
            THEN /\ prev_devices' = [prev_devices EXCEPT ![s] = resp]
                 /\ emitted' = [emitted EXCEPT ![s] = Append(@, ListAndWatchItem(resp))]
                 /\ lw' = [lw EXCEPT ![s] = IF IsErr(resp) THEN "done" ELSE "send"]
            ELSE /\ lw' = [lw EXCEPT ![s] = "sleep"]
                 /\ UNCHANGED <<prev_devices, emitted>>
    /\ UNCHANGED <<chan, rx_open, delivered>>
    /\ UNCHANGED notWatchVars

\* Mutant of GetDevices: only a device list is remembered, a failure is not.
GetDevicesRemembersListsOnly(s) ==
    /\ lw[s] = "get_devices"
    /\ TotalPolls < MaxPolls
    /\ \E resp \in get_devices :
         /\ devices_resp' = [devices_resp EXCEPT ![s] = resp]
         /\ polled' = [polled EXCEPT ![s] = Append(@, resp)]
         /\ IF ErrorOrChanged(resp, prev_devices[s])
            THEN /\ prev_devices' = [prev_devices EXCEPT
                                         ![s] = IF IsOk(resp) THEN resp ELSE @]
                 /\ emitted' = [emitted EXCEPT ![s] = Append(@, ListAndWatchItem(resp))]
                 /\ lw' = [lw EXCEPT ![s] = "send"]
            ELSE /\ lw' = [lw EXCEPT ![s] = "sleep"]
                 /\ UNCHANGED <<prev_devices, emitted>>
    /\ UNCHANGED <<chan, rx_open, delivered>>
    /\ UNCHANGED notWatchVars

\* line 66-72: get_devices answers, the answer is compared and, if it is to go
\* out, remembered and handed to tx.send. The plugin answers one of answers; cap
\* is the number of calls the model follows.
GetDevicesOf(s, answers, cap) ==
    /\ lw[s] = "get_devices"
    /\ TotalPolls < cap
    /\ \E resp \in answers :
         /\ devices_resp' = [devices_resp EXCEPT ![s] = resp]
         /\ polled' = [polled EXCEPT ![s] = Append(@, resp)]
         /\ IF ErrorOrChanged(resp, prev_devices[s])
            THEN /\ prev_devices' = [prev_devices EXCEPT ![s] = resp]
                 /\ emitted' = [emitted EXCEPT ![s] = Append(@, ListAndWatchItem(resp))]
                 /\ lw' = [lw EXCEPT ![s] = "send"]
            ELSE /\ lw' = [lw EXCEPT ![s] = "sleep"]
                 /\ UNCHANGED <<prev_devices, emitted>>
    /\ UNCHANGED <<chan, rx_open, delivered>>
    /\ UNCHANGED notWatchVars

\* line 66-72 for a plugin that may answer anything.
GetDevices(s) == GetDevicesOf(s, get_devices, MaxPolls)

\* A plugin whose device flips between healthy and unhealthy from one call to
\* the next, so that every poll result goes out.
Flapping(s) ==
    {Ok(<<[id |-> "mock0",
           health |-> IF Len(polled[s]) % 2 = 0 THEN Healthy ELSE Unhealthy]>>)}

\* get_devices calls followed for the flapping plugin: enough to fill the
\* channel and go on.
MaxBurst == ChannelCapacity + MaxPolls

\* line 66-72 for the flapping plugin.
GetDevicesFlapping(s) == GetDevicesOf(s, Flapping(s), MaxBurst)

\* Mutant of Send: the channel takes any number of items.
SendUnbounded(s) ==
    /\ lw[s] = "send"
    /\ IF ~rx_open[s]
       THEN /\ lw' = [lw EXCEPT ![s] = "done"]
            /\ UNCHANGED chan
       ELSE /\ chan' = [chan EXCEPT ![s] = Append(@, ListAndWatchItem(devices_resp[s]))]
            /\ lw' = [lw EXCEPT ![s] = "sleep"]
    /\ UNCHANGED <<prev_devices, devices_resp, rx_open, polled, emitted, delivered>>
    /\ UNCHANGED notWatchVars

\* Mutant of Send: the newest item goes to the head of the channel.
SendFront(s) ==
    /\ lw[s] = "send"
    /\ IF ~rx_open[s]
       THEN /\ lw' = [lw EXCEPT ![s] = "done"]
            /\ UNCHANGED chan
       ELSE /\ Len(chan[s]) < ChannelCapacity
            /\ chan' = [chan EXCEPT ![s] = <<ListAndWatchItem(devices_resp[s])>> \o @]
            /\ lw' = [lw EXCEPT ![s] = "sleep"]
    /\ UNCHANGED <<prev_devices, devices_resp, rx_open, polled, emitted, delivered>>
    /\ UNCHANGED notWatchVars

\* line 72-84: tx.send(..).await completes: with an error when the receiving
\* half is gone, else once the channel has room.
Send(s) ==
    /\ lw[s] = "send"
    /\ IF ~rx_open[s]
       THEN /\ lw' = [lw EXCEPT ![s] = "done"]
            /\ UNCHANGED chan
       ELSE /\ Len(chan[s]) < ChannelCapacity
            /\ chan' = [chan EXCEPT ![s] = Append(@, ListAndWatchItem(devices_resp[s]))]
            /\ lw' = [lw EXCEPT ![s] = "sleep"]
    /\ UNCHANGED <<prev_devices, devices_resp, rx_open, polled, emitted, delivered>>
    /\ UNCHANGED notWatchVars

\* line 86: sleep(DP::DEVICE_POLL_INTERVAL) is over.
Sleep(s) ==
    /\ lw[s] = "sleep"
    /\ lw' = [lw EXCEPT ![s] = "loop"]
    /\ UNCHANGED <<prev_devices, devices_resp, chan, rx_open, polled, emitted, delivered>>
    /\ UNCHANGED notWatchVars

\* The peer takes the next item from the ReceiverStream (line 90).
PeerRecv(s) ==
    /\ rx_open[s]
    /\ chan[s] # <<>>
    /\ delivered' = [delivered EXCEPT ![s] = Append(@, Head(chan[s]))]
    /\ chan' = [chan EXCEPT ![s] = Tail(@)]
    /\ UNCHANGED <<lw, prev_devices, devices_resp, rx_open, polled, emitted>>
    /\ UNCHANGED notWatchVars

\* The peer disconnects: the ReceiverStream is dropped, and what it held with it.
PeerDisconnect(s) ==
    /\ rx_open[s]
    /\ rx_open' = [rx_open EXCEPT ![s] = FALSE]
    /\ chan' = [chan EXCEPT ![s] = <<>>]
    /\ UNCHANGED <<lw, prev_devices, devices_resp, polled, emitted, delivered>>
    /\ UNCHANGED notWatchVars

WatchNext ==
    \E s \in Streams :
        \/ ListAndWatch(s)
        \/ LoopTop(s)
        \/ GetDevices(s)
        \/ Send(s)
        \/ Sleep(s)
        \/ PeerRecv(s)
        \/ PeerDisconnect(s)

\* ------------------------------------------------ Allocate, GetPreferredAllocation

\* ContainerAllocateRequest.devices_ids
DevicesIds == {<<>>, <<"mock0">>, <<"mock0", "mock1">>}

\* ContainerPreferredAllocationRequest
PreferredRequests ==
    [available_device_i_ds : {<<"mock0">>, <<"mock0", "mock1">>},
     must_include_device_i_ds : {<<>>, <<"mock0">>},
     allocation_size : {1, 2}]

\* What the plugin can answer: ContainerAllocateResponse (its devices field) and
\* ContainerPreferredAllocationResponse (its device_i_ds field).
ContainerAllocateResponses == {[devices |-> <<>>], [devices |-> <<"/dev/mock0">>],
                               [devices |-> <<"/dev/mock1">>]}
ContainerPreferredAllocationResponses == {[device_i_ds |-> <<>>], [device_i_ds |-> <<"mock0">>],
                                          [device_i_ds |-> <<"mock1">>]}

NoAllocResponse == [devices |-> <<>>]
NoPreferredResponse == [device_i_ds |-> <<>>]
NoResponses == <<>>

\* DP::container_allocate(device_ids): whatever the plugin implementation answers.
container_allocate(device_ids) ==
    {Ok(r) : r \in ContainerAllocateResponses}
        \cup {Err(NoAllocResponse, s) : s \in StatusCodes}

\* DP::get_container_preferred_allocation(available, must_include, size)
get_container_preferred_allocation(available, must_include, size) ==
    {Ok(r) : r \in ContainerPreferredAllocationResponses}
        \cup {Err(NoPreferredResponse, s) : s \in StatusCodes}

AllocInit ==
    /\ rpc = "none"
    /\ container_requests = <<>>
    /\ next_req = 1
    /\ container_responses = <<>>
    /\ plugin_calls = <<>>
    /\ rpc_result = [tag |-> "pending", val |-> NoResponses, status |-> NoStatus]

\* allocate: line 126-127, the request is taken apart and the Vec allocated.
AllocateBegin ==
    /\ rpc = "none"
    /\ \E reqs \in SeqsUpTo(DevicesIds, MaxContainers) :
           container_requests' = reqs
    /\ rpc' = "Allocate"
    /\ next_req' = 1
    /\ container_responses' = <<>>
    /\ UNCHANGED <<plugin_calls, rpc_result>>
    /\ UNCHANGED notAllocVars

\* Mutant of PushOrReturn: the answer is put in front of the earlier ones.
PushFrontOrReturn(args, res) ==
    /\ plugin_calls' = Append(plugin_calls, [args |-> args, result |-> res])
    /\ IF IsOk(res)
       THEN /\ container_responses' = <<res.val>> \o container_responses
            /\ next_req' = next_req + 1
            /\ UNCHANGED rpc_result
       ELSE /\ rpc_result' = [tag |-> "Err", val |-> NoResponses, status |-> res.status]
            /\ UNCHANGED <<container_responses, next_req>>
    /\ UNCHANGED <<rpc, container_requests>>
    /\ UNCHANGED notAllocVars

\* Mutant of PushOrReturn: a failed container is skipped and the loop goes on.
PushOrSkip(args, res) ==
    /\ plugin_calls' = Append(plugin_calls, [args |-> args, result |-> res])
    /\ container_responses' = IF IsOk(res) THEN Append(container_responses, res.val)
                              ELSE container_responses
    /\ next_req' = next_req + 1
    /\ UNCHANGED <<rpc, container_requests, rpc_result>>
    /\ UNCHANGED notAllocVars

\* What one turn of the for loop does with the plugin's answer: push it, or
\* return its error (the ? operator).
PushOrReturn(args, res) ==
    /\ plugin_calls' = Append(plugin_calls, [args |-> args, result |-> res])
    /\ IF IsOk(res)
       THEN /\ container_responses' = Append(container_responses, res.val)
            /\ next_req' = next_req + 1
            /\ UNCHANGED rpc_result
       ELSE /\ rpc_result' = [tag |-> "Err", val |-> NoResponses, status |-> res.status]
            /\ UNCHANGED <<container_responses, next_req>>
    /\ UNCHANGED <<rpc, container_requests>>
    /\ UNCHANGED notAllocVars

\* allocate: line 128-130, one turn of the loop.
AllocateContainer ==
    /\ rpc = "Allocate"
    /\ rpc_result.tag = "pending"
    /\ next_req <= Len(container_requests)
    /\ LET req == container_requests[next_req] IN
       \E res \in container_allocate(req) : PushOrReturn(req, res)

\* get_preferred_allocation: line 102-103.
GetPreferredAllocationBegin ==
    /\ rpc = "none"
    /\ \E reqs \in SeqsUpTo(PreferredRequests, MaxContainers) :
           container_requests' = reqs
    /\ rpc' = "GetPreferredAllocation"
    /\ next_req' = 1
    /\ container_responses' = <<>>
    /\ UNCHANGED <<plugin_calls, rpc_result>>
    /\ UNCHANGED notAllocVars

\* get_preferred_allocation: line 104-113, one turn of the loop.
GetPreferredAllocationContainer ==
    /\ rpc = "GetPreferredAllocation"
    /\ rpc_result.tag = "pending"
    /\ next_req <= Len(container_requests)
    /\ LET req == container_requests[next_req] IN
       \E res \in get_container_preferred_allocation(req.available_device_i_ds,
                                                     req.must_include_device_i_ds,
                                                     req.allocation_size) :
           PushOrReturn(req, res)

\* allocate line 131-133, get_preferred_allocation line 114-116: the loop is over.
RpcReturn ==
    /\ rpc # "none"
    /\ rpc_result.tag = "pending"
    /\ next_req > Len(container_requests)
    /\ rpc_result' = [tag |-> "Ok", val |-> container_responses, status |-> NoStatus]
    /\ UNCHANGED <<rpc, container_requests, next_req, container_responses, plugin_calls>>
    /\ UNCHANGED notAllocVars

AllocNext ==
    \/ AllocateBegin
    \/ AllocateContainer
    \/ GetPreferredAllocationBegin
    \/ GetPreferredAllocationContainer
    \/ RpcReturn

\* ------------------------------------------- GenericDevicePluginServer::run

\* lib.rs 35-36
VERSION == "v1beta1"
KUBELET_SOCK == "kubelet.sock"

\* The plugins run may be instantiated with (the trait's associated constants).
PluginConstants ==
    {[RESOURCE_NAME |-> "mock.org/mock", PRE_START_REQUIRED |-> TRUE,
      GET_PREFERRED_ALLOCATION_AVAILABLE |-> FALSE],
     [RESOURCE_NAME |-> "vendor.io/gpu", PRE_START_REQUIRED |-> FALSE,
      GET_PREFERRED_ALLOCATION_AVAILABLE |-> TRUE]}

\* The arguments of GenericDevicePluginServer::new. A path is the sequence of
\* its components.
DirPaths == {<<"var", "lib", "kubelet", "device-plugins">>}
SocketNames == {"mock.sock"}

\* Path::join for a file name.
join(dir, name) == Append(dir, name)

\* line 59
socket_path == join(cfg.dir_path, cfg.socket_name)

\* line 102
register_client_socket_path == join(cfg.dir_path, KUBELET_SOCK)

NoFile == [kind |-> "none", gen |-> 0]
OwnFile(g) == [kind |-> "self", gen |-> g]
OtherFile == [kind |-> "other", gen |-> 0]

\* Whether a listening socket is behind the file at socket_path.
FileHasListener ==
    \/ sock_file.kind = "self" /\ sock_file.gen = generation /\ uds = "listening"
    \/ sock_file.kind = "other" /\ other_listening

\* line 62: std::os::unix::net::UnixStream::connect(&socket_path)
connect ==
    IF ~path_ok THEN "Other"
    ELSE IF sock_file = NoFile THEN "NotFound"
    ELSE IF FileHasListener THEN "Ok"
    ELSE "ConnectionRefused"

\* Mutant of RegisterRequest: the two capability flags change places.
RegisterRequestFlagsSwapped ==
    [endpoint |-> cfg.socket_name,
     resource_name |-> cfg.RESOURCE_NAME,
     version |-> VERSION,
     options |-> [pre_start_required |-> cfg.GET_PREFERRED_ALLOCATION_AVAILABLE,
                  get_preferred_allocation_available |-> cfg.PRE_START_REQUIRED]]

\* line 110-118: the RegisterRequest
RegisterRequest ==
    [endpoint |-> cfg.socket_name,
     resource_name |-> cfg.RESOURCE_NAME,
     version |-> VERSION,
     options |-> [pre_start_required |-> cfg.PRE_START_REQUIRED,
                  get_preferred_allocation_available |->
                      cfg.GET_PREFERRED_ALLOCATION_AVAILABLE]]

\* service.rs 40-43: the DevicePluginOptions of get_device_plugin_options
DevicePluginOptions ==
    [pre_start_required |-> cfg.PRE_START_REQUIRED,
     get_preferred_allocation_available |-> cfg.GET_PREFERRED_ALLOCATION_AVAILABLE]

NoOptions == [pre_start_required |-> FALSE, get_preferred_allocation_available |-> FALSE]

\* The state before run is called, for a given configuration and a given state
\* of socket_path.
RunStart(c, file, listening, reachable) ==
    /\ cfg = c
    /\ mgr = "probe"
    /\ run_error = "none"
    /\ generation = 0
    /\ sock_file = file
    /\ other_listening = listening
    /\ path_ok = reachable
    /\ uds = "none"
    /\ watched = NoFile
    /\ events = 0
    /\ changed = FALSE
    /\ tx_alive = FALSE
    /\ srv = "none"
    /\ tx_sends = 0
    /\ shutdowns = 0
    /\ probe_result = "none"
    /\ probe_removed = FALSE
    /\ removed_since_bind = FALSE
    /\ reg_attempts = <<>>
    /\ registrations = <<>>
    /\ options_resp = [tag |-> "none", val |-> NoOptions]
    /\ externals = 0

\* run has not been called (the other specifications).
RunIdle ==
    RunStart([dir_path |-> <<"var", "lib", "kubelet", "device-plugins">>,
              socket_name |-> "mock.sock", RESOURCE_NAME |-> "mock.org/mock",
              PRE_START_REQUIRED |-> FALSE, GET_PREFERRED_ALLOCATION_AVAILABLE |-> FALSE],
             NoFile, FALSE, TRUE)

\* new(dir_path, socket_name) for some plugin, with socket_path absent, stale
\* (a file nobody listens on), in use by another process, or unreachable.
RunInit ==
    \E pc \in PluginConstants, d \in DirPaths, n \in SocketNames,
       fs \in {"absent", "stale", "active", "unreachable"} :
        RunStart([dir_path |-> d, socket_name |-> n, RESOURCE_NAME |-> pc.RESOURCE_NAME,
                  PRE_START_REQUIRED |-> pc.PRE_START_REQUIRED,
                  GET_PREFERRED_ALLOCATION_AVAILABLE |->
                      pc.GET_PREFERRED_ALLOCATION_AVAILABLE],
                 IF fs = "absent" THEN NoFile ELSE OtherFile,
                 fs = "active",
                 fs # "unreachable")

\* run returns Err: its locals are dropped, the watcher (and tx) among them and
\* the listener unless the serving task owns it; the JoinHandle is dropped, which
\* detaches the task.
Fail(why) ==
    /\ mgr' = "failed"
    /\ run_error' = why
    /\ watched' = NoFile
    /\ events' = 0
    /\ tx_alive' = FALSE
    /\ uds' = IF srv = "none" /\ uds = "listening" THEN "closed" ELSE uds

\* line 62-69: the connect and the match on its result.
Probe ==
    /\ mgr = "probe"
    /\ generation < MaxGenerations
    /\ probe_result' = connect
    /\ probe_removed' = FALSE
    /\ CASE connect = "NotFound" ->
                /\ mgr' = "bind"
                /\ UNCHANGED <<run_error, watched, events, tx_alive, uds>>
         [] connect = "ConnectionRefused" ->
                /\ mgr' = "remove_stale"
                /\ UNCHANGED <<run_error, watched, events, tx_alive, uds>>
         [] connect = "Other" -> Fail("unable to ensure uds is available")
         [] connect = "Ok" -> Fail("active unix socket connect exist")
    /\ UNCHANGED <<cfg, generation, sock_file, other_listening, path_ok, changed, srv,
                   tx_sends, shutdowns, removed_since_bind, reg_attempts, registrations,
                   options_resp, externals>>
    /\ UNCHANGED notRunVars

\* line 65: fs::remove_file(&socket_path)?
RemoveStale ==
    /\ mgr = "remove_stale"
    /\ IF sock_file = NoFile
       THEN /\ Fail("remove_file")
            /\ UNCHANGED <<sock_file, probe_removed>>
       ELSE /\ sock_file' = NoFile
            /\ probe_removed' = TRUE
            /\ mgr' = "bind"
            /\ UNCHANGED <<run_error, watched, events, tx_alive, uds>>
    /\ UNCHANGED <<cfg, generation, other_listening, path_ok, changed, srv, tx_sends,
                   shutdowns, probe_result, removed_since_bind, reg_attempts, registrations,
                   options_resp, externals>>
    /\ UNCHANGED notRunVars

\* Mutant of Bind: the clean-up of socket_path comes after the bind.
BindThenRemove ==
    /\ mgr = "bind"
    /\ generation' = generation + 1
    /\ sock_file' = NoFile
    /\ uds' = "listening"
    /\ removed_since_bind' = FALSE
    /\ mgr' = "watch"
    /\ UNCHANGED <<run_error, watched, events, tx_alive>>
    /\ UNCHANGED <<cfg, other_listening, path_ok, changed, srv, tx_sends, shutdowns,
                   probe_result, probe_removed, reg_attempts, registrations, options_resp,
                   externals>>
    /\ UNCHANGED notRunVars

\* line 71: UnixListener::bind(socket_path.clone())?
Bind ==
    /\ mgr = "bind"
    /\ IF sock_file # NoFile
       THEN /\ Fail("bind")
            /\ UNCHANGED <<generation, sock_file, removed_since_bind>>
       ELSE /\ generation' = generation + 1
            /\ sock_file' = OwnFile(generation + 1)
            /\ uds' = "listening"
            /\ removed_since_bind' = FALSE
            /\ mgr' = "watch"
            /\ UNCHANGED <<run_error, watched, events, tx_alive>>
    /\ UNCHANGED <<cfg, other_listening, path_ok, changed, srv, tx_sends, shutdowns,
                   probe_result, probe_removed, reg_attempts, registrations, options_resp,
                   externals>>
    /\ UNCHANGED notRunVars

\* line 73-81: the watch channel, the watcher and its subscription to socket_path.
Watch ==
    /\ mgr = "watch"
    /\ changed' = FALSE
    /\ tx_sends' = 0
    /\ shutdowns' = 0
    /\ IF sock_file = NoFile
       THEN Fail("watch")
       ELSE /\ watched' = sock_file
            /\ events' = 0
            /\ tx_alive' = TRUE
            /\ mgr' = "spawn"
            /\ UNCHANGED <<run_error, uds>>
    /\ UNCHANGED <<cfg, generation, sock_file, other_listening, path_ok, srv, probe_result,
                   probe_removed, removed_since_bind, reg_attempts, registrations, options_resp,
                   externals>>
    /\ UNCHANGED notRunVars

\* Mutant of Spawn: register is called first and the task spawned after it.
SpawnAfterRegister ==
    /\ \/ /\ mgr = "spawn"
          /\ mgr' = "register"
          /\ UNCHANGED srv
       \/ /\ mgr = "await_handle"
          /\ srv = "none"
          /\ srv' = "serving"
          /\ UNCHANGED mgr
    /\ UNCHANGED <<cfg, run_error, generation, sock_file, other_listening, path_ok, uds,
                   watched, events, changed, tx_alive, tx_sends, shutdowns, probe_result,
                   probe_removed, removed_since_bind, reg_attempts, registrations,
                   options_resp, externals>>
    /\ UNCHANGED notRunVars

\* line 83-91: the serving task is spawned.
Spawn ==
    /\ mgr = "spawn"
    /\ srv' = "serving"
    /\ mgr' = "register"
    /\ UNCHANGED <<cfg, run_error, generation, sock_file, other_listening, path_ok, uds,
                   watched, events, changed, tx_alive, tx_sends, shutdowns, probe_result,
                   probe_removed, removed_since_bind, reg_attempts, registrations, options_resp,
                   externals>>
    /\ UNCHANGED notRunVars

\* Mutant of RegisterConnect: a failed connection is tried again.
RegisterConnectRetry ==
    /\ mgr = "register"
    /\ reg_attempts' = Append(reg_attempts,
                              [gen |-> generation, srv |-> srv, uds |-> uds,
                               tx_sends |-> tx_sends])
    /\ mgr' \in {"registering", "register"}
    /\ Len(reg_attempts) < 2 * MaxGenerations
    /\ UNCHANGED <<run_error, watched, events, tx_alive, uds>>
    /\ UNCHANGED <<cfg, generation, sock_file, other_listening, path_ok, changed, srv,
                   tx_sends, shutdowns, probe_result, probe_removed, removed_since_bind,
                   registrations, options_resp, externals>>
    /\ UNCHANGED notRunVars

\* line 93 and 102-108: register is called and dials the kubelet's socket; the
\* connection may fail.
RegisterConnect ==
    /\ mgr = "register"
    /\ reg_attempts' = Append(reg_attempts,
                              [gen |-> generation, srv |-> srv, uds |-> uds,
                               tx_sends |-> tx_sends])
    /\ \/ /\ mgr' = "registering"
          /\ UNCHANGED <<run_error, watched, events, tx_alive, uds>>
       \/ Fail("register: connect")
    /\ UNCHANGED <<cfg, generation, sock_file, other_listening, path_ok, changed, srv,
                   tx_sends, shutdowns, probe_result, probe_removed, removed_since_bind,
                   registrations, options_resp, externals>>
    /\ UNCHANGED notRunVars

\* line 110-120: the Register request goes out and the kubelet accepts or
\* rejects it.
RegisterCall ==
    /\ mgr = "registering"
    /\ registrations' = Append(registrations,
                               [gen |-> generation, socket |-> register_client_socket_path,
                                request |-> RegisterRequest])
    /\ \/ /\ mgr' = "await_handle"
          /\ UNCHANGED <<run_error, watched, events, tx_alive, uds>>
       \/ Fail("register: rejected")
    /\ UNCHANGED <<cfg, generation, sock_file, other_listening, path_ok, changed, srv,
                   tx_sends, shutdowns, probe_result, probe_removed, removed_since_bind,
                   reg_attempts, options_resp, externals>>
    /\ UNCHANGED notRunVars

\* Mutant of AwaitHandle: the handle is not awaited.
AwaitHandleNoWait ==
    /\ mgr = "await_handle"
    /\ mgr' = "remove_file"
    /\ UNCHANGED <<cfg, run_error, generation, sock_file, other_listening, path_ok, uds,
                   watched, events, changed, tx_alive, srv, tx_sends, shutdowns,
                   probe_result, probe_removed, removed_since_bind, reg_attempts, registrations,
                   options_resp, externals>>
    /\ UNCHANGED notRunVars

\* Mutant of AwaitHandle: run selects between the handle and the first
\* notification.
AwaitHandleOrEvent ==
    /\ mgr = "await_handle"
    /\ srv = "ended" \/ tx_sends >= 1
    /\ mgr' = "remove_file"
    /\ UNCHANGED <<cfg, run_error, generation, sock_file, other_listening, path_ok, uds,
                   watched, events, changed, tx_alive, srv, tx_sends, shutdowns,
                   probe_result, probe_removed, removed_since_bind, reg_attempts, registrations,
                   options_resp, externals>>
    /\ UNCHANGED notRunVars

\* line 96: handle.await returns once the serving task has ended.
AwaitHandle ==
    /\ mgr = "await_handle"
    /\ srv = "ended"
    /\ mgr' = "remove_file"
    /\ UNCHANGED <<cfg, run_error, generation, sock_file, other_listening, path_ok, uds,
                   watched, events, changed, tx_alive, srv, tx_sends, shutdowns,
                   probe_result, probe_removed, removed_since_bind, reg_attempts, registrations,
                   options_resp, externals>>
    /\ UNCHANGED notRunVars

\* line 97-98: let _ = fs::remove_file(&socket_path), then the end of the loop
\* body, where the watcher (and tx) is dropped.
RemoveFile ==
    /\ mgr = "remove_file"
    /\ sock_file' = NoFile
    /\ watched' = NoFile
    /\ events' = 0
    /\ changed' = FALSE
    /\ tx_alive' = FALSE
    /\ srv' = "none"
    /\ uds' = "none"
    /\ tx_sends' = 0
    /\ shutdowns' = 0
    /\ probe_result' = "none"
    /\ probe_removed' = FALSE
    /\ mgr' = "probe"
    /\ UNCHANGED <<cfg, run_error, generation, other_listening, path_ok, removed_since_bind,
                   reg_attempts, registrations, options_resp, externals>>
    /\ UNCHANGED notRunVars

\* rx lives in run until the spawn and then in the shutdown future of the
\* serving task, which drops it when it completes.
rx_alive == srv \in {"none", "serving"}

\* Mutant of WatcherCallback: the notification wakes a task that is waiting and
\* is lost otherwise.
WatcherCallbackWakesWaiter ==
    /\ events > 0
    /\ tx_alive
    /\ events' = events - 1
    /\ tx_sends' = tx_sends + 1
    /\ changed' = IF srv = "serving" THEN TRUE ELSE changed
    /\ UNCHANGED <<cfg, mgr, run_error, generation, sock_file, other_listening, path_ok,
                   uds, watched, tx_alive, srv, shutdowns, probe_result, probe_removed,
                   removed_since_bind, reg_attempts, registrations, options_resp, externals>>
    /\ UNCHANGED notRunVars

\* line 74-79: the watcher's callback handles one notification: tx.send(()).
WatcherCallback ==
    /\ events > 0
    /\ tx_alive
    /\ events' = events - 1
    /\ tx_sends' = tx_sends + 1
    /\ changed' = IF rx_alive THEN TRUE ELSE changed
    /\ UNCHANGED <<cfg, mgr, run_error, generation, sock_file, other_listening, path_ok,
                   uds, watched, tx_alive, srv, shutdowns, probe_result, probe_removed,
                   removed_since_bind, reg_attempts, registrations, options_resp, externals>>
    /\ UNCHANGED notRunVars

\* Mutant of ServerShutdown: the future completes only when tx is dropped.
ServerShutdownOnDropOnly ==
    /\ srv = "serving"
    /\ ~tx_alive
    /\ srv' = "draining"
    /\ shutdowns' = shutdowns + 1
    /\ changed' = FALSE
    /\ uds' \in {uds, "closed"}
    /\ UNCHANGED <<cfg, mgr, run_error, generation, sock_file, other_listening, path_ok,
                   watched, events, tx_alive, tx_sends, probe_result, probe_removed,
                   removed_since_bind, reg_attempts, registrations, options_resp, externals>>
    /\ UNCHANGED notRunVars

\* line 86-89: rx.changed() returns in the serving task (a value was sent, or tx
\* is gone) and the graceful shutdown begins: no new connection is accepted, and
\* the transport drops the listener now or when the task ends.
ServerShutdown ==
    /\ srv = "serving"
    /\ changed \/ ~tx_alive
    /\ srv' = "draining"
    /\ shutdowns' = shutdowns + 1
    /\ changed' = FALSE
    /\ uds' \in {uds, "closed"}
    /\ UNCHANGED <<cfg, mgr, run_error, generation, sock_file, other_listening, path_ok,
                   watched, events, tx_alive, tx_sends, probe_result, probe_removed,
                   removed_since_bind, reg_attempts, registrations, options_resp, externals>>
    /\ UNCHANGED notRunVars

\* What the end of the serving task does: the task's locals, the listener among
\* them, are dropped.
TaskEnds ==
    /\ srv' = "ended"
    /\ uds' = "closed"
    /\ changed' = FALSE
    /\ UNCHANGED <<cfg, mgr, run_error, generation, sock_file, other_listening, path_ok,
                   watched, events, tx_alive, tx_sends, shutdowns, probe_result,
                   probe_removed, removed_since_bind, reg_attempts, registrations,
                   options_resp, externals>>
    /\ UNCHANGED notRunVars

\* line 84-89: the graceful shutdown is over (the open connections have ended)
\* and the serving task ends.
ServerDrained ==
    /\ srv = "draining"
    /\ TaskEnds

\* line 84-86: the serving task ends on its own: serve_with_incoming_shutdown
\* returns an error.
ServerFails ==
    /\ srv = "serving"
    /\ TaskEnds

\* service.rs 36-45: a peer calls GetDevicePluginOptions on the serving task.
GetDevicePluginOptions ==
    /\ srv \in {"serving", "draining"}
    /\ options_resp' = [tag |-> "Ok", val |-> DevicePluginOptions]
    /\ UNCHANGED <<cfg, mgr, run_error, generation, sock_file, other_listening, path_ok,
                   uds, watched, events, changed, tx_alive, srv, tx_sends, shutdowns,
                   probe_result, probe_removed, removed_since_bind, reg_attempts, registrations,
                   externals>>
    /\ UNCHANGED notRunVars

\* What a step of another process leaves alone.
ExternalFrame ==
    /\ externals' = externals + 1
    /\ UNCHANGED <<cfg, mgr, run_error, generation, path_ok, uds, watched, changed,
                   tx_alive, srv, tx_sends, shutdowns, probe_result, probe_removed,
                   reg_attempts, registrations, options_resp>>
    /\ UNCHANGED notRunVars

\* Another process removes the file at socket_path (the kubelet clears its
\* plugin directory); a watcher subscribed to the file is notified.
ExternalRemove ==
    /\ externals < MaxExternal
    /\ sock_file # NoFile
    /\ sock_file' = NoFile
    /\ events' = IF watched = sock_file THEN events + 1 ELSE events
    /\ removed_since_bind' = TRUE
    /\ UNCHANGED other_listening
    /\ ExternalFrame

\* Another process changes the file the watcher is subscribed to without
\* removing it (its mode, its owner).
ExternalTouch ==
    /\ externals < MaxExternal
    /\ sock_file # NoFile
    /\ watched = sock_file
    /\ events' = events + 1
    /\ UNCHANGED <<sock_file, other_listening, removed_since_bind>>
    /\ ExternalFrame

\* Another process binds a socket at the free socket_path.
ExternalBind ==
    /\ externals < MaxExternal
    /\ path_ok
    /\ sock_file = NoFile
    /\ sock_file' = OtherFile
    /\ other_listening' = TRUE
    /\ UNCHANGED <<events, removed_since_bind>>
    /\ ExternalFrame

\* The other process stops listening and leaves its socket file behind.
ExternalExit ==
    /\ externals < MaxExternal
    /\ other_listening
    /\ other_listening' = FALSE
    /\ UNCHANGED <<sock_file, events, removed_since_bind>>
    /\ ExternalFrame

RunNext ==
    \/ Probe
    \/ RemoveStale
    \/ Bind
    \/ Watch
    \/ Spawn
    \/ RegisterConnect
    \/ RegisterCall
    \/ AwaitHandle
    \/ RemoveFile
    \/ WatcherCallback
    \/ ServerShutdown
    \/ ServerDrained
    \/ ServerFails
    \/ GetDevicePluginOptions
    \/ ExternalRemove
    \/ ExternalTouch
    \/ ExternalBind
    \/ ExternalExit

\* ------------------------------------- two instances of run on one socket_path

\* Two servers built by new with the same dir_path and socket_name.
Managers == {"m1", "m2"}

NoSharedFile == [owner |-> "none", gen |-> 0]

\* A socket file left behind by a process that is gone.
StaleFile == [owner |-> "stale", gen |-> 0]

\* Whether a listening socket is behind file f: the listener of the generation
\* of the instance that bound it is alive.
Listens(f) ==
    /\ f.owner \in Managers
    /\ inst[f.owner].listening
    /\ inst[f.owner].gen = f.gen

\* line 62: UnixStream::connect(&socket_path) on the shared path
connect_shared ==
    IF path_file = NoSharedFile THEN "NotFound"
    ELSE IF Listens(path_file) THEN "Ok"
    ELSE "ConnectionRefused"

\* The watcher of instance j (and its tx) lives from line 74 to the end of the
\* loop body or the return of run.
WatcherAlive(j) == inst[j].mgr \in {"spawn", "register", "await_handle", "remove_file"}

\* Instance i takes a step that leaves it as rec; if the step removes the shared
\* file, the live watchers of the other instance subscribed to it are notified.
StepBy(i, rec, removes) ==
    inst' = [j \in Managers |->
                IF j = i THEN rec
                ELSE IF removes /\ WatcherAlive(j) /\ inst[j].watched = path_file
                     THEN [inst[j] EXCEPT !.events = @ + 1]
                     ELSE inst[j]]

\* fs::remove_file(&socket_path) by instance i on an existing file.
RemovedBy(i) ==
    /\ path_file' = NoSharedFile
    /\ deleted' = deleted \cup {[by |-> i, owner |-> path_file.owner,
                                 live |-> Listens(path_file)]}

\* run of instance i returns Err: the watcher is dropped, and the listener
\* unless the serving task owns it.
Failed(i) ==
    [inst[i] EXCEPT !.mgr = "failed", !.watched = NoSharedFile, !.events = 0,
                    !.listening = IF inst[i].srv = "none" THEN FALSE ELSE @]

InstIdle == [mgr |-> "probe", srv |-> "none", listening |-> FALSE, gen |-> 0,
             watched |-> NoSharedFile, events |-> 0, changed |-> FALSE]

\* Both instances are about to call run; the path is free or holds a stale file.
SharedInit ==
    /\ inst = [i \in Managers |-> InstIdle]
    /\ path_file \in {NoSharedFile, StaleFile}
    /\ deleted = {}
    /\ removals = 0

\* Neither instance is started (the other specifications).
SharedIdle ==
    /\ inst = [i \in Managers |-> InstIdle]
    /\ path_file = NoSharedFile
    /\ deleted = {}
    /\ removals = 0

\* line 62-69 for instance i: the connect and the match on its result.
SharedProbe(i) ==
    /\ inst[i].mgr = "probe"
    /\ inst[i].gen < MaxGenerations
    /\ StepBy(i, CASE connect_shared = "NotFound" ->
                          [inst[i] EXCEPT !.mgr = "bind"]
                   [] connect_shared = "ConnectionRefused" ->
                          [inst[i] EXCEPT !.mgr = "remove_stale"]
                   [] OTHER -> Failed(i),
              FALSE)
    /\ UNCHANGED <<path_file, deleted, removals>>
    /\ UNCHANGED notSharedVars

\* line 65 for instance i: fs::remove_file(&socket_path)?
SharedRemoveStale(i) ==
    /\ inst[i].mgr = "remove_stale"
    /\ IF path_file = NoSharedFile
       THEN /\ StepBy(i, Failed(i), FALSE)
            /\ UNCHANGED <<path_file, deleted>>
       ELSE /\ StepBy(i, [inst[i] EXCEPT !.mgr = "bind"], TRUE)
            /\ RemovedBy(i)
    /\ UNCHANGED removals
    /\ UNCHANGED notSharedVars

\* line 71 for instance i: UnixListener::bind(socket_path.clone())?
SharedBind(i) ==
    /\ inst[i].mgr = "bind"
    /\ IF path_file # NoSharedFile
       THEN /\ StepBy(i, Failed(i), FALSE)
            /\ UNCHANGED path_file
       ELSE /\ StepBy(i, [inst[i] EXCEPT !.mgr = "watch", !.gen = @ + 1,
                                         !.listening = TRUE], FALSE)
            /\ path_file' = [owner |-> i, gen |-> inst[i].gen + 1]
    /\ UNCHANGED <<deleted, removals>>
    /\ UNCHANGED notSharedVars

\* line 73-81 for instance i: the watcher subscribes to whatever file is at
\* socket_path now.
SharedWatch(i) ==
    /\ inst[i].mgr = "watch"
    /\ StepBy(i, IF path_file = NoSharedFile
                 THEN Failed(i)
                 ELSE [inst[i] EXCEPT !.mgr = "spawn", !.watched = path_file,
                                      !.events = 0, !.changed = FALSE],
              FALSE)
    /\ UNCHANGED <<path_file, deleted, removals>>
    /\ UNCHANGED notSharedVars

\* line 83-91 for instance i
SharedSpawn(i) ==
    /\ inst[i].mgr = "spawn"
    /\ StepBy(i, [inst[i] EXCEPT !.mgr = "register", !.srv = "serving"], FALSE)
    /\ UNCHANGED <<path_file, deleted, removals>>
    /\ UNCHANGED notSharedVars

\* line 93 for instance i: self.register().await?
SharedRegister(i) ==
    /\ inst[i].mgr = "register"
    /\ \/ StepBy(i, [inst[i] EXCEPT !.mgr = "await_handle"], FALSE)
       \/ StepBy(i, Failed(i), FALSE)
    /\ UNCHANGED <<path_file, deleted, removals>>
    /\ UNCHANGED notSharedVars

\* line 96 for instance i: handle.await returns once the serving task has ended.
SharedAwaitHandle(i) ==
    /\ inst[i].mgr = "await_handle"
    /\ inst[i].srv = "ended"
    /\ StepBy(i, [inst[i] EXCEPT !.mgr = "remove_file"], FALSE)
    /\ UNCHANGED <<path_file, deleted, removals>>
    /\ UNCHANGED notSharedVars

\* line 97-98 for instance i: let _ = fs::remove_file(&socket_path), whatever
\* file is there, then the end of the loop body.
SharedRemoveFile(i) ==
    /\ inst[i].mgr = "remove_file"
    /\ LET rec == [inst[i] EXCEPT !.mgr = "probe", !.srv = "none", !.listening = FALSE,
                                  !.watched = NoSharedFile, !.events = 0,
                                  !.changed = FALSE]
       IN  IF path_file = NoSharedFile
           THEN /\ StepBy(i, rec, FALSE)
                /\ UNCHANGED <<path_file, deleted>>
           ELSE /\ StepBy(i, rec, TRUE)
                /\ RemovedBy(i)
    /\ UNCHANGED removals
    /\ UNCHANGED notSharedVars

\* line 74-79 for instance i: the callback handles one notification.
SharedWatcherCallback(i) ==
    /\ inst[i].events > 0
    /\ WatcherAlive(i)
    /\ StepBy(i, [inst[i] EXCEPT !.events = @ - 1,
                                 !.changed = IF inst[i].srv \in {"none", "serving"}
                                             THEN TRUE ELSE @],
              FALSE)
    /\ UNCHANGED <<path_file, deleted, removals>>
    /\ UNCHANGED notSharedVars

\* line 86-89 for instance i: rx.changed() returns (a value was sent, or tx is
\* gone) and the graceful shutdown begins.
SharedServerShutdown(i) ==
    /\ inst[i].srv = "serving"
    /\ inst[i].changed \/ ~WatcherAlive(i)
    /\ StepBy(i, [inst[i] EXCEPT !.srv = "draining", !.changed = FALSE], FALSE)
    /\ UNCHANGED <<path_file, deleted, removals>>
    /\ UNCHANGED notSharedVars

\* line 84-89 for instance i: the shut-down serving task ends and drops the
\* listener.
SharedServerDrained(i) ==
    /\ inst[i].srv = "draining"
    /\ StepBy(i, [inst[i] EXCEPT !.srv = "ended", !.listening = FALSE], FALSE)
    /\ UNCHANGED <<path_file, deleted, removals>>
    /\ UNCHANGED notSharedVars

\* Another process (the kubelet clearing its plugin directory) removes the
\* shared file; every live watcher subscribed to it is notified.
SharedExternalRemove ==
    /\ removals < MaxExternal
    /\ path_file # NoSharedFile
    /\ inst' = [j \in Managers |->
                   IF WatcherAlive(j) /\ inst[j].watched = path_file
                   THEN [inst[j] EXCEPT !.events = @ + 1]
                   ELSE inst[j]]
    /\ path_file' = NoSharedFile
    /\ removals' = removals + 1
    /\ UNCHANGED deleted
    /\ UNCHANGED notSharedVars

SharedNext ==
    \/ SharedExternalRemove
    \/ \E i \in Managers :
        \/ SharedProbe(i)
        \/ SharedRemoveStale(i)
        \/ SharedBind(i)
        \/ SharedWatch(i)
        \/ SharedSpawn(i)
        \/ SharedRegister(i)
        \/ SharedAwaitHandle(i)
        \/ SharedRemoveFile(i)
        \/ SharedWatcherCallback(i)
        \/ SharedServerShutdown(i)
        \/ SharedServerDrained(i)

\* ------------------------------------------------------------ specifications

Init == AllocInit /\ WatchIdle /\ RunIdle /\ SharedIdle

SpecAlloc == Init /\ [][AllocNext]_vars

SpecWatch == Init /\ [][WatchNext]_vars

InitRun == AllocInit /\ WatchIdle /\ RunInit /\ SharedIdle

SpecRun == InitRun /\ [][RunNext]_vars

InitShared == AllocInit /\ WatchIdle /\ RunIdle /\ SharedInit

SpecShared == InitShared /\ [][SharedNext]_vars

\* The steps of the polling task of a stream.
WatchTask(s) ==
    \/ LoopTop(s)
    \/ GetDevices(s)
    \/ Send(s)
    \/ Sleep(s)

\* One ListAndWatch call and its peer.
WatchNextOne ==
    \/ ListAndWatch("s1")
    \/ LoopTop("s1")
    \/ GetDevices("s1")
    \/ Send("s1")
    \/ Sleep("s1")
    \/ PeerRecv("s1")
    \/ PeerDisconnect("s1")

\* One ListAndWatch call on the flapping plugin and its peer, which reads when
\* it likes.
BackpressureNext ==
    \/ ListAndWatch("s1")
    \/ LoopTop("s1")
    \/ GetDevicesFlapping("s1")
    \/ Send("s1")
    \/ Sleep("s1")
    \/ PeerRecv("s1")
    \/ PeerDisconnect("s1")

SpecBackpressure == Init /\ [][BackpressureNext]_vars

\* A polling task is a tokio task: it is scheduled whenever it can take a step,
\* its sleep ends, and the plugin's get_devices returns. Nothing is assumed of
\* the peer.
SpecWatchFair == Init /\ [][WatchNextOne]_vars /\ WF_vars(WatchTask("s1"))

\* The steps of run itself: the task is scheduled until it returns.
RunSteps ==
    \/ Probe
    \/ RemoveStale
    \/ Bind
    \/ Watch
    \/ Spawn
    \/ RegisterConnect
    \/ RegisterCall
    \/ AwaitHandle
    \/ RemoveFile

\* run and the serving task's shutdown future are tokio tasks, scheduled
\* whenever they can take a step. Nothing is assumed of other processes, of the
\* serving task's own failure, or of how long a shut-down task takes to finish
\* its open connections.
\* The scheduling of run does not depend on the plugin: one plugin is followed.
InitRunFair == InitRun /\ cfg.RESOURCE_NAME = "mock.org/mock"

SpecRunFair ==
    /\ InitRunFair
    /\ [][RunNext]_vars
    /\ WF_vars(RunSteps)
    /\ WF_vars(ServerShutdown)

\* In addition the watcher's thread runs the callback for every notification
\* it has.
SpecRunFairWatcher == SpecRunFair /\ WF_vars(WatcherCallback)

\* ---------------------------------------------------- ListAndWatch: claims

Last(q) == q[Len(q)]
Front(q) == SubSeq(q, 1, Len(q) - 1)

\* A poll result as the stream item the peer is to see.
ExpectedItem(p) ==
    IF p.tag = "Ok"
    THEN [tag |-> "Ok", val |-> [devices |-> p.val], status |-> "none"]
    ELSE [tag |-> "Err", val |-> [devices |-> <<>>], status |-> p.status]

\* The last emitted snapshot: <<list>>, or <<>> (nothing) when nothing has been
\* emitted or the last emitted item is an error.
LastSnapshot(e) ==
    IF e = <<>> \/ Last(e).tag = "Err" THEN <<>> ELSE <<Last(e).val.devices>>

\* The items the emission rule selects from a sequence of poll results.
RECURSIVE Selected(_)
Selected(polls) ==
    IF polls = <<>> THEN <<>>
    ELSE LET e == Selected(Front(polls))
             p == Last(polls)
         IN  IF p.tag = "Err" \/ <<p.val>> # LastSnapshot(e)
             THEN Append(e, ExpectedItem(p))
             ELSE e

\* What the task has put, or is putting, on the stream.
OnStream(s) ==
    delivered[s] \o chan[s] \o (IF lw[s] = "send" THEN <<Last(emitted[s])>> ELSE <<>>)

RECURSIVE Errors(_)
Errors(q) ==
    IF q = <<>> THEN <<>>
    ELSE IF Last(q).tag = "Err" THEN Append(Errors(Front(q)), Last(q).status)
         ELSE Errors(Front(q))

DevH == <<[id |-> "mock0", health |-> "Healthy"]>>
DevU == <<[id |-> "mock0", health |-> "Unhealthy"]>>

\* C1: on every stream the values handed to the channel are exactly the poll
\* results that are errors or whose device list differs from the last emitted
\* snapshot (an emitted error counting as no snapshot), and while the peer is
\* connected they are the items on the stream.
C1_EmitIffErrorOrChanged ==
    \A s \in Streams :
        /\ emitted[s] = Selected(polled[s])
        /\ rx_open[s] => OnStream(s) = Selected(polled[s])

\* C1's scenario: the same list on ticks 1 and 2, a changed one on tick 3, and
\* the peer has received exactly two items.
C1_Witness ==
    \E s \in Streams :
        /\ polled[s] = <<Ok(DevH), Ok(DevH), Ok(DevU)>>
        /\ delivered[s] = <<ExpectedItem(Ok(DevH)), ExpectedItem(Ok(DevU))>>

\* C2: the first poll result of every stream is handed to the channel whatever
\* it is, and whatever the other stream has emitted; with the peer connected it
\* is the first item of the stream.
C2_FirstPollEmitted ==
    \A s \in Streams :
        polled[s] # <<>> =>
            /\ emitted[s] # <<>>
            /\ emitted[s][1] = ExpectedItem(polled[s][1])
            /\ rx_open[s] => OnStream(s)[1] = ExpectedItem(polled[s][1])

\* C2's case: both streams polled the same empty list first, and each peer
\* received it.
C2_Witness ==
    \A s \in Streams :
        /\ polled[s] = <<Ok(<<>>)>>
        /\ delivered[s] = <<ExpectedItem(Ok(<<>>))>>

\* C3: every failed poll is handed to the channel as a failed item of its own
\* (never deduplicated); the task ends only when the receiving half is gone, so
\* a failure does not end it; and with the peer connected everything emitted,
\* before and after a failure, is on the stream in order.
C3_FailuresAreItems ==
    \A s \in Streams :
        /\ Errors(emitted[s]) = Errors(polled[s])
        /\ lw[s] = "done" => ~rx_open[s]
        /\ rx_open[s] => OnStream(s) = emitted[s]

\* C3's scenario: two identical failures, then a list, all three received, and
\* the task still running.
C3_Witness ==
    \E s \in Streams :
        /\ polled[s] = <<Err(<<>>, "unavailable"), Err(<<>>, "unavailable"), Ok(DevH)>>
        /\ Len(delivered[s]) = 3
        /\ delivered[s][1] = delivered[s][2]
        /\ delivered[s][1].tag = "Err"
        /\ delivered[s][3].tag = "Ok"
        /\ lw[s] = "sleep"

\* ------------------------------- Allocate, GetPreferredAllocation: claims

AllCallsOk == \A i \in 1..Len(plugin_calls) : plugin_calls[i].result.tag = "Ok"

\* C4: when the plugin succeeds on all N containers of an Allocate or
\* GetPreferredAllocation request, the handler returns N entries, entry i being
\* the plugin's answer to the call made for container i of the request.
C4_ResponsePerContainerInOrder ==
    (rpc_result.tag # "pending" /\ AllCallsOk) =>
        /\ rpc_result.tag = "Ok"
        /\ Len(rpc_result.val) = Len(container_requests)
        /\ Len(plugin_calls) = Len(container_requests)
        /\ \A i \in 1..Len(container_requests) :
               /\ plugin_calls[i].args = container_requests[i]
               /\ plugin_calls[i].result.val = rpc_result.val[i]

\* C4's case: an Allocate of two containers with different device ids and
\* different answers has returned.
C4_Witness ==
    /\ rpc = "Allocate"
    /\ container_requests = <<(<<"mock0">>), (<<"mock0", "mock1">>)>>
    /\ rpc_result.tag = "Ok"
    /\ rpc_result.val = <<[devices |-> <<"/dev/mock0">>], [devices |-> <<"/dev/mock1">>]>>

\* C5: a plugin failure on container k is the last call made to the plugin, the
\* calls before it are those of containers 1..k-1 in order, and the handler
\* returns exactly that status and no container response.
C5_FailFast ==
    /\ \A k \in 1..Len(plugin_calls) :
           /\ plugin_calls[k].args = container_requests[k]
           /\ plugin_calls[k].result.tag = "Err" =>
                  /\ k = Len(plugin_calls)
                  /\ rpc_result.tag = "Err"
                  /\ rpc_result.status = plugin_calls[k].result.status
                  /\ rpc_result.val = <<>>
    /\ rpc_result.tag = "Ok" => AllCallsOk

\* C5's scenario: the second of two containers fails.
C5_Witness ==
    /\ rpc = "Allocate"
    /\ Len(container_requests) = 2
    /\ Len(plugin_calls) = 2
    /\ plugin_calls[1].result.tag = "Ok"
    /\ plugin_calls[2].result.tag = "Err"
    /\ rpc_result = [tag |-> "Err", val |-> <<>>, status |-> "not_found"]

\* ------------------------------------------------------------- run: claims

\* run considers itself serving: from a successful bind until handle.await has
\* returned.
ConsidersServing == mgr \in {"watch", "spawn", "register", "registering", "await_handle"}

ProbeErrors == {"unable to ensure uds is available", "active unix socket connect exist",
                "remove_file"}

\* C6: the four outcomes of probing, as the claim states them: absent, bind
\* with nothing removed; refused, the file is removed and the bind follows;
\* connected, fatal with no removal and no bind; any other error, fatal with no
\* bind.
C6_ProbeOutcomes ==
    /\ mgr = "bind" => probe_result \in {"NotFound", "ConnectionRefused"}
    /\ probe_result = "NotFound" =>
           /\ ~probe_removed
           /\ mgr # "remove_stale"
           /\ run_error \notin ProbeErrors
    /\ probe_result = "ConnectionRefused" =>
           /\ mgr = "remove_stale" \/ probe_removed
           /\ run_error \notin ProbeErrors
    /\ probe_result = "Ok" =>
           /\ mgr = "failed"
           /\ run_error = "active unix socket connect exist"
           /\ ~probe_removed
           /\ uds # "listening"
    /\ probe_result = "Other" =>
           /\ mgr = "failed"
           /\ run_error = "unable to ensure uds is available"
           /\ ~probe_removed
           /\ uds # "listening"

\* C7 as stated: in a generation in which a change notification has been
\* handled, the serving task has got its shutdown signal exactly once by the
\* time run leaves the generation, and run goes on to the next cycle (it does
\* not return).
C7_Original ==
    tx_sends >= 1 =>
        /\ shutdowns <= 1
        /\ mgr = "remove_file" => shutdowns = 1
        /\ mgr # "failed"

\* The shutdown future of a generation completes at most once, and only after a
\* notification was handled or tx was dropped.
AtMostOneShutdown ==
    /\ shutdowns <= 1
    /\ shutdowns = 1 => tx_sends >= 1 \/ ~tx_alive

\* Run is in the cycle after generation g and has called register again, or has
\* returned, or has reached the last generation this model lets it bind.
RestartedAfter(g) ==
    \/ mgr = "failed"
    \/ generation = g + 1 /\ mgr = "await_handle"
    \/ generation = MaxGenerations /\ generation = g /\ mgr = "probe"

\* C7 (amended): however many notifications a generation handles, its shutdown
\* future completes at most once; a notification handled while the task serves
\* leads to its shutdown; and once the task has ended after a handled
\* notification, run either returns with a fatal error (registration failed) or
\* deletes the socket file and goes through the cycle again up to the
\* registration of the next generation.
C7_ShutdownOnceAndRestart ==
    /\ []AtMostOneShutdown
    /\ (tx_sends >= 1 /\ srv = "serving") ~> (srv # "serving")
    /\ \A g \in 1..MaxGenerations :
           (generation = g /\ tx_sends >= 1 /\ srv = "ended") ~> RestartedAfter(g)

\* C7's case: two notifications were handled in one generation, the task was
\* shut down once and has ended, and run is about to delete the socket file and
\* start the next cycle.
C7_Witness ==
    /\ tx_sends = 2
    /\ shutdowns = 1
    /\ srv = "ended"
    /\ mgr = "remove_file"

\* C8 as stated: whenever run considers itself serving, a listening socket is
\* behind the file at socket_path.
C8_Original == ConsidersServing => FileHasListener

\* C8 (amended): while run considers itself serving, the socket bound in this
\* iteration is the listening socket at socket_path as long as no other process
\* has removed the file since the bind and the serving task has not been shut
\* down or ended; and a socket file of run's own at the path is never that of
\* an earlier generation.
C8_OneListenerUntilDisturbed ==
    ConsidersServing =>
        /\ (~removed_since_bind /\ srv \in {"none", "serving"}) =>
               /\ sock_file = OwnFile(generation)
               /\ uds = "listening"
               /\ FileHasListener
        /\ sock_file.kind = "self" => sock_file.gen = generation

\* C8's case: the second generation is registered and serving, undisturbed.
C8_Witness ==
    /\ mgr = "await_handle"
    /\ generation = 2
    /\ srv = "serving"
    /\ ~removed_since_bind
    /\ FileHasListener

\* C9 as stated: each time register is called, the socket of the iteration is
\* being served and has not been shut down.
C9_Original ==
    \A i \in 1..Len(reg_attempts) :
        reg_attempts[i].srv = "serving" /\ reg_attempts[i].uds = "listening"

\* C9 (amended): register is called only after the socket of the iteration has
\* been bound and its serving task spawned, once per generation in order; the
\* socket is being served at that moment unless a change notification has
\* already been handled or the task has already ended.
C9_RegisterAfterSpawn ==
    \A i \in 1..Len(reg_attempts) :
        LET a == reg_attempts[i] IN
        /\ a.gen = i
        /\ a.srv # "none"
        /\ a.uds # "none"
        /\ (a.tx_sends = 0 /\ a.srv # "ended") =>
               (a.srv = "serving" /\ a.uds = "listening")

\* C9's case: register was called in two generations, the socket served.
C9_Witness ==
    /\ Len(reg_attempts) = 2
    /\ \A i \in 1..2 : reg_attempts[i].srv = "serving" /\ reg_attempts[i].uds = "listening"

\* The file name of a path: its last component.
file_name(path) == path[Len(path)]

\* C10: every Register request, in the first and in every later generation,
\* carries the configured resource name and capability flags, the socket's file
\* name and the version string, goes to <dir_path>/kubelet.sock, and its flags
\* are those GetDevicePluginOptions answers.
C10_RegisterRequest ==
    \A i \in 1..Len(registrations) :
        LET r == registrations[i] IN
        /\ r.gen = i
        /\ r.request.resource_name = cfg.RESOURCE_NAME
        /\ r.request.options.pre_start_required = cfg.PRE_START_REQUIRED
        /\ r.request.options.get_preferred_allocation_available =
               cfg.GET_PREFERRED_ALLOCATION_AVAILABLE
        /\ r.request.endpoint = file_name(socket_path)
        /\ r.request.version = "v1beta1"
        /\ DOMAIN r.request = {"endpoint", "resource_name", "version", "options"}
        /\ r.socket = cfg.dir_path \o <<"kubelet.sock">>
        /\ options_resp.tag = "Ok" => options_resp.val = r.request.options

\* C10's case: two generations have registered and a peer has asked for the
\* options of a plugin whose two flags differ.
C10_Witness ==
    /\ Len(registrations) = 2
    /\ options_resp.tag = "Ok"
    /\ cfg.PRE_START_REQUIRED # cfg.GET_PREFERRED_ALLOCATION_AVAILABLE

\* C11: run binds the socket of the next generation only when the serving task
\* of the previous one has ended and been awaited, its listener is dropped and
\* no socket file is at socket_path; run leaves handle.await only when the task
\* has ended; and a socket file of run's own is that of the current generation.
C11_GenerationsNeverOverlap ==
    /\ [](sock_file.kind = "self" => sock_file.gen = generation)
    /\ [](mgr = "remove_file" => srv = "ended" /\ uds = "closed")
    /\ [][generation' = generation + 1 =>
              /\ srv = "none"
              /\ uds = "none"
              /\ sock_file = NoFile
              /\ ~tx_alive]_vars

\* C11's case: the first generation's task was shut down and has ended, and run
\* has bound the socket of the second generation.
C11_Witness ==
    /\ generation = 2
    /\ mgr = "watch"
    /\ sock_file = OwnFile(2)
    /\ uds = "listening"
    /\ srv = "none"

\* C12 as stated: once registered, run can go on as soon as the serving task
\* has ended or a change notification has been handled.
C12_Original ==
    (mgr = "await_handle" /\ (srv = "ended" \/ tx_sends >= 1)) => ENABLED AwaitHandle

\* C12 (amended): once registered, run waits for the serving task alone: it can
\* go on exactly when the task has ended, whatever notifications have been
\* handled, and from there the deletion of the socket file waits for nothing.
C12_ResumesWhenTaskEnded ==
    /\ mgr = "await_handle" => (ENABLED AwaitHandle <=> srv = "ended")
    /\ mgr = "remove_file" => (srv = "ended" /\ ENABLED RemoveFile)

\* C12's case: a notification was handled after the registration, the task was
\* shut down by it and has ended, and run has not resumed yet.
C12_Witness ==
    /\ mgr = "await_handle"
    /\ tx_sends = 1
    /\ shutdowns = 1
    /\ srv = "ended"
    /\ Last(reg_attempts).tx_sends = 0

\* The generations that have got as far as calling register.
PastRegister ==
    IF mgr \in {"watch", "spawn", "register"} \/ (mgr = "failed" /\ run_error = "watch")
    THEN generation - 1
    ELSE generation

RegisterErrors == {"register: connect", "register: rejected"}

\* C13: register is called once in every generation that gets to it and never
\* twice in one; a failed connection or a rejected request makes run return that
\* error; and once run has returned nothing of it moves again: no register, no
\* probe, no bind.
C13_RegisterOnceAndFatal ==
    /\ [](/\ Len(reg_attempts) = PastRegister
          /\ \A i \in 1..Len(reg_attempts) : reg_attempts[i].gen = i
          /\ Len(registrations) <= Len(reg_attempts)
          /\ run_error \in RegisterErrors => mgr = "failed")
    /\ [][mgr = "failed" =>
              /\ mgr' = "failed"
              /\ UNCHANGED <<run_error, generation, reg_attempts, registrations,
                             probe_result, probe_removed>>]_vars
    /\ [][(mgr \in {"register", "registering"} /\ mgr' = "failed") =>
              run_error' \in RegisterErrors]_vars

\* C13's case: the registration of the second generation was rejected and run
\* has returned.
C13_Witness ==
    /\ mgr = "failed"
    /\ run_error = "register: rejected"
    /\ generation = 2
    /\ Len(reg_attempts) = 2
    /\ Len(registrations) = 2

\* C18: a notification handled while rx is alive stays latched in the watch
\* channel until the shutdown future takes it, whether the serving task has
\* been spawned or not; and every notification the watcher has, and every
\* latched one, leads to the serving task of the generation shutting down (or
\* having ended already), also when register fails in between.
C18_NoLostShutdownSignal ==
    /\ []((tx_sends >= 1 /\ rx_alive /\ shutdowns = 0) => changed)
    /\ [](changed => rx_alive /\ tx_sends >= 1)
    /\ (events > 0 \/ changed) ~> (srv \in {"draining", "ended"})

\* C18's case: the only notification was handled before register was called,
\* while the task had not yet shut down, and the task has shut down once.
C18_Witness ==
    /\ mgr = "await_handle"
    /\ tx_sends = 1
    /\ shutdowns = 1
    /\ srv = "draining"
    /\ Last(reg_attempts).tx_sends = 1
    /\ Last(reg_attempts).srv = "serving"

\* An instance of run is in the serving state: its serving task is spawned and
\* has not been shut down.
InstServing(i) == inst[i].mgr \in {"register", "await_handle"} /\ inst[i].srv = "serving"

\* C19 as stated: of two instances of run on the same socket_path, neither ever
\* removes a socket file the other is listening on, and at most one considers
\* itself serving at any time.
C19_SharedPathExclusive ==
    /\ \A d \in deleted : ~d.live
    /\ Cardinality({i \in Managers : InstServing(i)}) <= 1

\* --------------------------------------------- ListAndWatch: further claims

\* The model lets the task of s make no further get_devices call.
PollsExhausted(s) == lw[s] = "get_devices" /\ TotalPolls >= MaxPolls

\* Steps the task of s is away from its end once its peer has gone, whatever
\* get_devices answers.
StepsToEnd(s) ==
    CASE lw[s] = "get_devices" -> 3
      [] lw[s] = "sleep" -> 2
      [] lw[s] \in {"loop", "send"} -> 1
      [] OTHER -> 0

\* C14: once the peer of a stream has gone, the polling task of the stream
\* ends: every step it takes brings it nearer to its end (a pending send fails,
\* the next look at tx.is_closed() leaves the loop, also when the list does not
\* change), and under fair scheduling it gets there, the model's cap on
\* get_devices calls aside.
C14_TaskEndsAfterDisconnect ==
    /\ \A s \in Streams :
           (lw[s] # "none" /\ ~rx_open[s]) ~> (lw[s] = "done" \/ PollsExhausted(s))
    /\ [][\A s \in Streams :
              (lw[s] # "none" /\ ~rx_open[s] /\ lw'[s] # lw[s]) =>
                  StepsToEnd(s)' < StepsToEnd(s)]_vars
    /\ [](\A s \in Streams :
              (lw[s] \notin {"none", "done"} /\ ~rx_open[s] /\ ~PollsExhausted(s)) =>
                  ENABLED WatchTask(s))

\* C14's case: the list was the same on two ticks, the peer left while the task
\* slept after the second, and the task has ended without another emission.
C14_Witness ==
    \E s \in Streams :
        /\ polled[s] = <<Ok(DevH), Ok(DevH)>>
        /\ Len(emitted[s]) = 1
        /\ delivered[s] = emitted[s]
        /\ ~rx_open[s]
        /\ lw[s] = "done"

\* C15 as stated: the loop of a polling task ends only by a send that fails.
C15_Original ==
    [][\A s \in Streams : (lw[s] # "done" /\ lw'[s] = "done") => lw[s] = "send"]_vars

\* C15 (amended): the loop of a polling task ends only when the receiving half
\* of its channel is gone, and in one of two places: at a send that fails, or
\* at the look at tx.is_closed() that opens every tick; once ended it stays
\* ended.
C15_EndsOnlyOnClosedChannel ==
    /\ [][\A s \in Streams :
              /\ (lw[s] # "done" /\ lw'[s] = "done") =>
                     (~rx_open[s] /\ lw[s] \in {"loop", "send"})
              /\ lw[s] = "done" => lw'[s] = "done"]_vars
    /\ [](\A s \in Streams :
              lw[s] = "done" =>
                  /\ ~rx_open[s]
                  /\ Len(delivered[s]) <= Len(emitted[s])
                  /\ Len(emitted[s]) <= Len(polled[s]))

\* C15's case: the only poll failed, its item was received, the peer left and
\* the task ended at the top of the loop: no send of it ever failed.
C15_Witness ==
    \E s \in Streams :
        /\ lw[s] = "done"
        /\ polled[s] = <<Err(<<>>, "unavailable")>>
        /\ delivered[s] = emitted[s]
        /\ Len(delivered[s]) = 1

\* C16: the channel of a stream never holds more than ChannelCapacity items;
\* with the channel full and the peer connected the task sits in its send and
\* can take no step, so it makes no get_devices call until the peer reads or
\* leaves; a get_devices call is made only when nothing emitted is pending; and
\* while the peer is connected everything emitted is received, in the channel or
\* in the pending send.
C16_Backpressure ==
    /\ [](\A s \in Streams :
              /\ Len(chan[s]) <= ChannelCapacity
              /\ rx_open[s] => OnStream(s) = emitted[s]
              /\ (rx_open[s] /\ lw[s] = "send" /\ Len(chan[s]) = ChannelCapacity) =>
                     ~ENABLED WatchTask(s))
    /\ [][\A s \in Streams :
              polled'[s] # polled[s] =>
                  /\ lw[s] = "get_devices"
                  /\ rx_open[s] => Len(emitted[s]) = Len(delivered[s]) + Len(chan[s])]_vars

\* C16's case: the peer has read nothing, 128 items are in the channel and the
\* task is in the send of the 129th.
C16_Witness ==
    /\ rx_open["s1"]
    /\ delivered["s1"] = <<>>
    /\ Len(chan["s1"]) = ChannelCapacity
    /\ lw["s1"] = "send"
    /\ Len(polled["s1"]) = ChannelCapacity + 1

IsPrefix(p, q) == Len(p) <= Len(q) /\ p = SubSeq(q, 1, Len(p))

\* The comparison sentinel as a stream item.
SentinelItem == ExpectedItem(InitialPrevDevices)

\* C17: what the peer of a stream has received is at every moment a prefix of
\* the poll results the emission rule selects, in poll order, each once; it
\* grows one item at a time, by the oldest item in the channel; at most one
\* emission is pending; and the sentinel is neither received nor in the channel.
C17_DeliveredInOrderOnce ==
    /\ [](\A s \in Streams :
              /\ LET selected == Selected(polled[s]) IN
                 /\ IsPrefix(delivered[s], selected)
                 /\ rx_open[s] =>
                        /\ IsPrefix(delivered[s] \o chan[s], selected)
                        /\ Len(selected) = Len(delivered[s]) + Len(chan[s])
                                               + (IF lw[s] = "send" THEN 1 ELSE 0)
              /\ \A i \in 1..Len(delivered[s]) : delivered[s][i] # SentinelItem
              /\ \A i \in 1..Len(chan[s]) : chan[s][i] # SentinelItem)
    /\ [][\A s \in Streams :
              \/ delivered'[s] = delivered[s]
              \/ /\ chan[s] # <<>>
                 /\ delivered'[s] = Append(delivered[s], Head(chan[s]))
                 /\ chan'[s] = Tail(chan[s])]_vars

\* C17's case: a list, a failure, and the same list again, received as three
\* items in that order while the other stream received something else.
C17_Witness ==
    /\ polled["s1"] = <<Ok(DevH), Err(<<>>, "not_found"), Ok(DevH)>>
    /\ delivered["s1"] = <<ExpectedItem(Ok(DevH)),
                            ExpectedItem(Err(<<>>, "not_found")),
                            ExpectedItem(Ok(DevH))>>
    /\ delivered["s2"] = <<>>
    /\ lw["s2"] # "none"

\* The items selected when every poll result is compared with the poll result
\* before it (the first with the sentinel).
RECURSIVE SelectedByPreviousPoll(_)
SelectedByPreviousPoll(polls) ==
    IF polls = <<>> THEN <<>>
    ELSE LET before == IF Len(polls) = 1 THEN InitialPrevDevices ELSE polls[Len(polls) - 1]
             p == Last(polls)
         IN  IF ErrorOrChanged(p, before)
             THEN Append(SelectedByPreviousPoll(Front(polls)), ExpectedItem(p))
             ELSE SelectedByPreviousPoll(Front(polls))

\* C20: once a poll has been compared, prev_devices is the result of the latest
\* get_devices call; so what is emitted is what a comparison with the previous
\* poll result selects; and with the peer connected, the channel empty and no
\* send pending, the last item received is the latest poll result.
C20_PrevIsLatestPoll ==
    \A s \in Streams :
        /\ (polled[s] # <<>> /\ lw[s] # "none") =>
               /\ prev_devices[s] = Last(polled[s])
               /\ devices_resp[s] = Last(polled[s])
        /\ emitted[s] = SelectedByPreviousPoll(polled[s])
        /\ (rx_open[s] /\ chan[s] = <<>> /\ lw[s] # "send" /\ polled[s] # <<>>) =>
               Last(delivered[s]) = ExpectedItem(Last(polled[s]))

\* C20's case: a list twice, then a failure, every tick completed and the
\* channel drained.
C20_Witness ==
    \E s \in Streams :
        /\ polled[s] = <<Ok(DevU), Ok(DevU), Err(<<>>, "not_found")>>
        /\ prev_devices[s] = Err(<<>>, "not_found")
        /\ lw[s] = "sleep"
        /\ rx_open[s]
        /\ chan[s] = <<>>
        /\ Len(delivered[s]) = 2

====
